---- MODULE Spec2Model ----
(***************************************************************************)
(* Model of the weights I/O layer (backbones/_io.py, backbones/_weights.py) *)
(* , the model binder (load_model), the ResNet module tree                  *)
(* (backbones/resnet/_modules.py) and the two checkpoint conversion        *)
(* scripts (scripts/convert_*_resnet.py).                                  *)
(*                                                                         *)
(* Python objects are records carrying their type; tensor keys, paths and  *)
(* messages are strings and are rewritten character by character.          *)
(***************************************************************************)
EXTENDS Integers, Sequences, FiniteSets, TLC

VARIABLES fs,    \* the files: absolute path -> artifact
          ret,   \* the last call: its operation, arguments and outcome
          todo   \* the input paths a running conversion script has yet to convert

vars == <<fs, ret, todo>>

(***************************************************************************)
(* Strings                                                                 *)
(***************************************************************************)

Digits == <<"0", "1", "2", "3", "4", "5", "6", "7", "8", "9">>

CharAt(s, i) == SubSeq(s, i, i)

IsDigit(c) == \E d \in 1..10 : Digits[d] = c

DigitVal(c) == (CHOOSE d \in 1..10 : Digits[d] = c) - 1

\* s[i:] starts with the literal pat
MatchAt(s, i, pat) ==
    /\ i + Len(pat) - 1 <= Len(s)
    /\ SubSeq(s, i, i + Len(pat) - 1) = pat

Contains(s, pat) == \E i \in 1..(Len(s) + 1) : MatchAt(s, i, pat)

\* A pattern is a literal [kind |-> "literal", old |-> .., new |-> ..] or one
\* of the two regular expressions of the detectron2 script that are not
\* literals: conv(\d).norm -> norm\1 and residual.weight -> residual.conv.weight,
\* in which the dot matches any character.
Literal(old, new) == [kind |-> "literal", old |-> old, new |-> new]

IsDigitAt(s, i) == \E d \in 1..10 : Digits[d] = SubSeq(s, i, i)

PatLen(pat) ==
    IF pat.kind = "literal" THEN Len(pat.old)
    ELSE IF pat.kind = "conv_norm" THEN 10
    ELSE 15

PatMatch(pat, s, j) ==
    IF pat.kind = "literal" THEN MatchAt(s, j, pat.old)
    ELSE IF pat.kind = "conv_norm"
         THEN /\ j + 9 <= Len(s)
              /\ MatchAt(s, j, "conv")
              /\ IsDigitAt(s, j + 4)
              /\ MatchAt(s, j + 6, "norm")
    ELSE /\ j + 14 <= Len(s)
         /\ MatchAt(s, j, "residual")
         /\ MatchAt(s, j + 9, "weight")

PatRepl(pat, s, j) ==
    IF pat.kind = "literal" THEN pat.new
    ELSE IF pat.kind = "conv_norm" THEN "norm" \o SubSeq(s, j + 4, j + 4)
    ELSE "residual.conv.weight"

\* the least element of a set of positions, 0 when it is empty
Least(M) == IF M = {} THEN 0 ELSE CHOOSE j \in M : \A k \in M : j <= k

\* the first position at or after i where pat matches, 0 when there is none
FirstMatch(s, i, pat) == Least({j \in i..Len(s) : PatMatch(pat, s, j)})

\* s[i:] with every non-overlapping match of pat, left to right, replaced;
\* j is the first match at or after i
RECURSIVE SubFrom(_, _, _)
SubAt(s, i, pat, j) ==
    IF j = 0 THEN SubSeq(s, i, Len(s))
    ELSE SubSeq(s, i, j - 1) \o PatRepl(pat, s, j) \o SubFrom(s, j + PatLen(pat), pat)

SubFrom(s, i, pat) == SubAt(s, i, pat, FirstMatch(s, i, pat))

\* pattern.sub(repl, s)
Sub(pat, s) == SubFrom(s, 1, pat)

\* str.replace(old, new): every non-overlapping occurrence, left to right
str_replace(s, old, new) == Sub(Literal(old, new), s)

RECURSIVE NatToStr(_)
NatToStr(n) ==
    IF n < 10 THEN Digits[n + 1]
    ELSE NatToStr(n \div 10) \o Digits[(n % 10) + 1]

\* str(int)
IntToStr(n) == IF n < 0 THEN "-" \o NatToStr(0 - n) ELSE NatToStr(n)

RECURSIVE StrToNatAcc(_, _, _)
StrToNatAcc(s, i, acc) ==
    IF i > Len(s) THEN acc
    ELSE StrToNatAcc(s, i + 1, acc * 10 + DigitVal(CharAt(s, i)))

\* int(str) of a string of decimal digits
StrToInt(s) == StrToNatAcc(s, 1, 0)

RECURSIVE JoinFrom(_, _, _)
JoinFrom(sep, seq, i) ==
    IF i > Len(seq) THEN ""
    ELSE IF i = Len(seq) THEN seq[i]
         ELSE seq[i] \o sep \o JoinFrom(sep, seq, i + 1)

\* sep.join(seq)
Join(sep, seq) == JoinFrom(sep, seq, 1)

(***************************************************************************)
(* Python objects                                                          *)
(***************************************************************************)

PyStr(s) == [type |-> "str", s |-> s]

PyInt(s) == [type |-> "int", s |-> s]

PyTensor(bits, device) == [type |-> "Tensor", s |-> bits, device |-> device]

PyNone == [type |-> "NoneType"]

PyDict(items) == [type |-> "dict", items |-> items]

PyTuple(items) == [type |-> "tuple", items |-> items]

isinstance(obj, t) == obj.type = t

EmptyMap == [k \in {} |-> PyNone]

Range(q) == {q[i] : i \in DOMAIN q}

Restrict(f, S) == [k \in S |-> f[k]]

Values(f) == {f[k] : k \in DOMAIN f}

\* outcome of a call: a returned value or a raised exception
Return(v) == [err |-> "none", msg |-> "", val |-> v]

Raise(e, m) == [err |-> e, msg |-> m, val |-> PyNone]

(***************************************************************************)
(* Paths and the file system                                               *)
(***************************************************************************)

Cwd == "/m"

\* the file a path names: relative paths are taken from the working directory
AbsPath(path) ==
    IF MatchAt(path, 1, "/") THEN path ELSE Cwd \o "/" \o path

\* pathlib.Path(path).resolve()
_parse_path(path) == AbsPath(path)

Paths == {"a.st", "/m/a.st", "/m/b.st"}

Devices == {"cpu", "cuda"}

\* the tensors and metadata block an artifact stores; metadata is <<>> when
\* the file has no metadata block and <<m>> when it has the block m
Artifact(tensors, metadata) == [tensors |-> tensors, metadata |-> metadata]

\* save_file that refuses a map without tensors
save_file_error_rejects_empty(tensors, metadata) ==
    IF ~isinstance(tensors, "dict") THEN "ValueError"
    ELSE IF DOMAIN tensors.items = {} THEN "ValueError"
    ELSE "none"

\* safetensors.torch.save_file(tensors, filename, metadata): the tensors are
\* flattened (ValueError unless every value is a tensor), then the typed
\* arguments are converted (TypeError unless names and metadata are strings),
\* and only then is the file written
save_file_error(tensors, metadata) ==
    IF ~isinstance(tensors, "dict") THEN "ValueError"
    ELSE IF \E v \in Values(tensors.items) : ~isinstance(v, "Tensor")
         THEN "ValueError"
    ELSE IF \E k \in DOMAIN tensors.items : ~isinstance(k, "str")
         THEN "TypeError"
    ELSE IF isinstance(metadata, "NoneType") THEN "none"
    ELSE IF ~isinstance(metadata, "dict") THEN "TypeError"
    ELSE IF \E k \in DOMAIN metadata.items :
                ~isinstance(k, "str") \/ ~isinstance(metadata.items[k], "str")
         THEN "TypeError"
    ELSE "none"

\* the bytes save_file writes: tensor names and payloads, metadata strings
Serialize(tensors, metadata) ==
    Artifact(
        [n \in {k.s : k \in DOMAIN tensors.items} |-> tensors.items[PyStr(n)].s],
        IF isinstance(metadata, "NoneType") THEN <<>>
        ELSE <<[n \in {k.s : k \in DOMAIN metadata.items} |->
                    metadata.items[PyStr(n)].s]>>)

\* save_file that creates the file before it validates its arguments
save_file_writes_first(files, tensors, filename, metadata) ==
    LET e == save_file_error(tensors, metadata) IN
    IF e # "none"
    THEN [res |-> Raise(e, ""),
          fs |-> (AbsPath(filename) :> Artifact(<<>>, <<>>)) @@ files]
    ELSE [res |-> Return(PyNone),
          fs |-> (AbsPath(filename) :> Serialize(tensors, metadata)) @@ files]

\* save_file that adds to the file already at filename instead of replacing it
save_file_merges(files, tensors, filename, metadata) ==
    LET e == save_file_error(tensors, metadata)
        f == AbsPath(filename)
        new == Serialize(tensors, metadata)
    IN  IF e # "none" THEN [res |-> Raise(e, ""), fs |-> files]
        ELSE IF f \in DOMAIN files
             THEN [res |-> Return(PyNone),
                   fs |-> (f :> Artifact(new.tensors @@ files[f].tensors,
                                         new.metadata)) @@ files]
        ELSE [res |-> Return(PyNone), fs |-> (f :> new) @@ files]

\* result: the outcome of the call and the file system after it
save_file(files, tensors, filename, metadata) ==
    LET e == save_file_error(tensors, metadata) IN
    IF e # "none" THEN [res |-> Raise(e, ""), fs |-> files]
    ELSE [res |-> Return(PyNone),
          fs |-> (AbsPath(filename) :> Serialize(tensors, metadata)) @@ files]

\* a file known only by what the decoder hands back for it: any object for
\* its tensors, any object for its metadata
Foreign(data, meta) == [foreign |-> TRUE, data |-> data, meta |-> meta]

IsForeign(file) == "foreign" \in DOMAIN file

\* safetensors.torch.load_file(path, device)
load_file(files, path, device) ==
    LET f == AbsPath(path) IN
    IF f \notin DOMAIN files THEN Raise("FileNotFoundError", "")
    ELSE IF IsForeign(files[f]) THEN Return(files[f].data)
    ELSE Return(PyDict([k \in {PyStr(n) : n \in DOMAIN files[f].tensors} |->
                            PyTensor(files[f].tensors[k.s], device)]))

\* safetensors.safe_open(path).metadata()
file_metadata(files, path) ==
    LET f == AbsPath(path) IN
    IF f \notin DOMAIN files THEN Raise("FileNotFoundError", "")
    ELSE IF IsForeign(files[f]) THEN Return(files[f].meta)
    ELSE IF files[f].metadata = <<>> THEN Return(PyNone)
    ELSE Return(PyDict([k \in {PyStr(n) : n \in DOMAIN files[f].metadata[1]} |->
                            PyStr(files[f].metadata[1][k.s])]))

(***************************************************************************)
(* Weights codec: backbones/_io.py                                         *)
(***************************************************************************)

\* the observed key and value types a format error reports
TypesMsg(text, obj) ==
    IF isinstance(obj, "dict")
    THEN [text |-> text,
          key_types |-> {k.type : k \in DOMAIN obj.items},
          val_types |-> {v.type : v \in Values(obj.items)}]
    ELSE [text |-> text, key_types |-> "unknown", val_types |-> "unknown"]

check_data(state) ==
    IF ~isinstance(state, "dict")
    THEN Raise("TypeError", [text |-> "Expected state to be a dict", got |-> state.type])
    ELSE Return(\A k \in DOMAIN state.items :
                    isinstance(k, "str") /\ isinstance(state.items[k], "Tensor"))

load_data(files, path, device) ==
    LET p == _parse_path(path)
        data == load_file(files, p, device)
    IN  IF data.err # "none" THEN data
        ELSE LET ok == check_data(data.val) IN
             IF ok.err # "none" THEN ok
             ELSE IF ~ok.val
                  THEN Raise("TypeError",
                             TypesMsg("Expected states to be a mapping {str} -> {Tensor}",
                                      data.val))
             ELSE Return(data.val)

check_meta(meta) ==
    IF ~isinstance(meta, "dict")
    THEN Raise("TypeError", [text |-> "Expected metadata to be a dict", got |-> meta.type])
    ELSE Return(\A k \in DOMAIN meta.items :
                    isinstance(meta.items[k], "str") /\ isinstance(k, "str"))

\* load_meta with "if data is None" in place of "if data is None and missing_ok"
load_meta_ignores_missing_ok(files, path, missing_ok) ==
    LET data == file_metadata(files, _parse_path(path)) IN
    IF data.err # "none" THEN data
    ELSE IF isinstance(data.val, "NoneType") THEN Return(PyDict(EmptyMap))
    ELSE Return(data.val)

load_meta(files, path, missing_ok) ==
    LET p == _parse_path(path)
        data == file_metadata(files, p)
    IN  IF data.err # "none" THEN data
        ELSE IF isinstance(data.val, "NoneType") /\ missing_ok
             THEN Return(PyDict(EmptyMap))
        ELSE LET ok == check_meta(data.val) IN
             IF ok.err # "none" THEN ok
             ELSE IF ~ok.val
                  THEN Raise("TypeError",
                             TypesMsg("Expected metadata to be a mapping str -> Tensor",
                                      data.val))
             ELSE Return(data.val)

\* load_weights that returns Weights(load_data(path, device=device), {})
load_weights_drops_meta(files, path, device) ==
    LET data == load_data(files, _parse_path(path), device) IN
    IF data.err # "none" THEN data
    ELSE Return(PyTuple(<<data.val, PyDict(EmptyMap)>>))

\* load_weights that calls load_meta(path, missing_ok=False)
load_weights_requires_meta(files, path, device) ==
    LET data == load_data(files, _parse_path(path), device) IN
    IF data.err # "none" THEN data
    ELSE LET meta == load_meta(files, _parse_path(path), FALSE) IN
         IF meta.err # "none" THEN meta
         ELSE Return(PyTuple(<<data.val, meta.val>>))

\* Weights(load_data(path, device=device), load_meta(path))
load_weights(files, path, device) ==
    LET p == _parse_path(path)
        data == load_data(files, p, device)
    IN  IF data.err # "none" THEN data
        ELSE LET meta == load_meta(files, p, TRUE) IN
             IF meta.err # "none" THEN meta
             ELSE Return(PyTuple(<<data.val, meta.val>>))

\* what "data, meta = wt" iterates over: a tuple yields its items, a dict
\* yields its keys
IterLen(obj) ==
    IF isinstance(obj, "tuple") THEN Len(obj.items)
    ELSE Cardinality(DOMAIN obj.items)

\* the elements of a set, one after the other
RECURSIVE Enumerate(_)
Enumerate(S) ==
    IF S = {} THEN <<>>
    ELSE LET x == CHOOSE y \in S : TRUE IN <<x>> \o Enumerate(S \ {x})

IterItems(obj) ==
    IF isinstance(obj, "tuple") THEN obj.items
    ELSE Enumerate(DOMAIN obj.items)

save_weights(files, wt, path) ==
    LET p == _parse_path(path) IN
    IF IterLen(wt) # 2
    THEN [res |-> Raise("ValueError", "unpack"), fs |-> files]
    ELSE save_file(files, IterItems(wt)[1], p, IterItems(wt)[2])

(***************************************************************************)
(* backbones/_weights.py                                                   *)
(***************************************************************************)

check_metadata(meta) ==
    IF ~isinstance(meta, "dict")
    THEN Raise("TypeError", [text |-> "Expected metadata to be a dict", got |-> meta.type])
    ELSE Return(\A k \in DOMAIN meta.items :
                    isinstance(meta.items[k], "str") /\ isinstance(k, "str"))

load_metadata(files, path, missing_ok) ==
    LET data == file_metadata(files, path) IN
    IF data.err # "none" THEN data
    ELSE IF isinstance(data.val, "NoneType") /\ missing_ok
         THEN Return(PyDict(EmptyMap))
    ELSE LET ok == check_metadata(data.val) IN
         IF ok.err # "none" THEN ok
         ELSE IF ~ok.val
              THEN Raise("TypeError",
                         TypesMsg("Expected metadata to be a mapping str -> Tensor",
                                  data.val))
         ELSE Return(data.val)

(***************************************************************************)
(* Inputs of the codec operations                                          *)
(***************************************************************************)

MaxKeys == 2

KeyName(i) == "k" \o IntToStr(i)

DeviceOf(i) == IF i % 2 = 1 THEN "cpu" ELSE "cuda"

\* the tensor a caller holds under key i
TensorOf(i) == PyTensor("t" \o IntToStr(i), DeviceOf(i))

FullData == [k \in {PyStr(KeyName(i)) : i \in 1..MaxKeys} |->
                TensorOf(CHOOSE i \in 1..MaxKeys : KeyName(i) = k.s)]

\* the maps holding the first n keys, n = 0 .. MaxKeys
ValidData ==
    {PyDict(Restrict(FullData, {PyStr(KeyName(i)) : i \in 1..n})) : n \in 0..MaxKeys}

InvalidData ==
    { PyDict(PyStr("k1") :> PyStr("x")),
      PyDict(PyInt("1") :> TensorOf(1)),
      PyDict((PyStr("k1") :> TensorOf(1)) @@ (PyInt("1") :> TensorOf(2))),
      PyDict((PyStr("k1") :> TensorOf(1)) @@ (PyStr("k2") :> PyInt("7"))) }

ValidMeta ==
    { PyDict(EmptyMap),
      PyDict(PyStr("config") :> PyStr("c1")),
      PyDict((PyStr("config") :> PyStr("c2")) @@ (PyStr("features") :> PyStr("f1"))) }

InvalidMeta == { PyDict(PyStr("config") :> PyInt("3")) }

\* every valid record (with or without a metadata argument), and every
\* invalid map paired with a valid or an invalid partner
SaveInputs ==
    {PyTuple(<<d, m>>) : d \in ValidData, m \in ValidMeta \cup {PyNone}}
    \cup {PyTuple(<<d, m>>) : d \in InvalidData,
                              m \in {PyDict(EmptyMap)} \cup InvalidMeta}
    \cup {PyTuple(<<PyDict(FullData), m>>) : m \in InvalidMeta}

(***************************************************************************)
(* State: the file system and the outcome of the last call                 *)
(***************************************************************************)

Call(op, args, res) ==
    [op |-> op, args |-> args, err |-> res.err, msg |-> res.msg, val |-> res.val]

Init ==
    /\ fs = <<>>
    /\ ret = Call("init", <<>>, Return(PyNone))
    /\ todo = 0

SaveWeights ==
    \E wt \in SaveInputs, path \in Paths :
        \E r \in {save_weights(fs, wt, path)} :
        /\ fs' = r.fs
        /\ ret' = Call("save_weights", [wt |-> wt, path |-> path], r.res)
        /\ UNCHANGED todo

LoadData ==
    \E path \in Paths, device \in Devices :
        /\ ret' = Call("load_data", [path |-> path, device |-> device],
                       load_data(fs, path, device))
        /\ UNCHANGED <<fs, todo>>

LoadMeta ==
    \E path \in Paths, missing_ok \in BOOLEAN :
        /\ ret' = Call("load_meta", [path |-> path, missing_ok |-> missing_ok],
                       load_meta(fs, path, missing_ok))
        /\ UNCHANGED <<fs, todo>>

LoadWeights ==
    \E path \in Paths, device \in Devices :
        /\ ret' = Call("load_weights", [path |-> path, device |-> device],
                       load_weights(fs, path, device))
        /\ UNCHANGED <<fs, todo>>

LoadMetadata ==
    \E path \in Paths, missing_ok \in BOOLEAN :
        /\ ret' = Call("load_metadata", [path |-> path, missing_ok |-> missing_ok],
                       load_metadata(fs, path, missing_ok))
        /\ UNCHANGED <<fs, todo>>

Next == SaveWeights \/ LoadData \/ LoadMeta \/ LoadWeights \/ LoadMetadata

Spec == Init /\ [][Next]_vars

(***************************************************************************)
(* Key remapping: scripts/convert_torchvision_resnet.py and                *)
(* scripts/convert_detectron2_resnet.py                                    *)
(*                                                                         *)
(* A checkpoint is a Python dict in insertion order: a sequence of         *)
(* <<key, tensor>> pairs with distinct keys.  The map a script builds      *)
(* (w_bb) is a function from key to tensor.                                *)
(***************************************************************************)

KeysOf(w) == {w[i][1] : i \in DOMAIN w}

\* w[key]
Lookup(w, key) == w[CHOOSE i \in DOMAIN w : w[i][1] = key][2]

\* w[key] read without removing the entry: the checkpoint keeps the key
Without_keeps_entry(w, key) == w

\* w without the entry of key (dict.pop)
Without(w, key) == SelectSeq(w, LAMBDA e : e[1] # key)

\* the "# Stem" entries of the dict literal, <<target, source>>, in the order
\* their pops are evaluated
TV_STEM ==
    << <<"stem.norm.bias", "bn1.bias">>,
       <<"stem.norm.num_batches_tracked", "bn1.num_batches_tracked">>,
       <<"stem.norm.running_mean", "bn1.running_mean">>,
       <<"stem.norm.running_var", "bn1.running_var">>,
       <<"stem.norm.weight", "bn1.weight">>,
       <<"stem.conv.weight", "conv1.weight">> >>

D2_STEM ==
    << <<"stem.norm.bias", "stem.conv1.norm.bias">>,
       <<"stem.norm.num_batches_tracked", "stem.conv1.norm.num_batches_tracked">>,
       <<"stem.norm.running_mean", "stem.conv1.norm.running_mean">>,
       <<"stem.norm.running_var", "stem.conv1.norm.running_var">>,
       <<"stem.norm.weight", "stem.conv1.norm.weight">>,
       <<"stem.conv.weight", "stem.conv1.weight">> >>

\* the two "if ... in w: w_bb[...] = w.pop(...)" statements, in order
HEAD ==
    << <<"head.proj.bias", "fc.bias">>,
       <<"head.proj.weight", "fc.weight">> >>

\* the dict literal with w.pop(key, None): a missing stem source is skipped
RECURSIVE PopStem_tolerant(_, _, _, _)
PopStem_tolerant(stem, i, w, w_bb) ==
    IF i > Len(stem) THEN [err |-> "none", key |-> "", w |-> w, w_bb |-> w_bb]
    ELSE IF stem[i][2] \notin KeysOf(w)
         THEN PopStem_tolerant(stem, i + 1, w, w_bb)
         ELSE PopStem_tolerant(stem, i + 1, Without(w, stem[i][2]),
                               (stem[i][1] :> Lookup(w, stem[i][2])) @@ w_bb)

\* the dict literal: every stem source is popped, a missing one raises KeyError
RECURSIVE PopStem(_, _, _, _)
PopStem(stem, i, w, w_bb) ==
    IF i > Len(stem) THEN [err |-> "none", key |-> "", w |-> w, w_bb |-> w_bb]
    ELSE IF stem[i][2] \notin KeysOf(w)
         THEN [err |-> "KeyError", key |-> stem[i][2], w |-> w, w_bb |-> w_bb]
         ELSE PopStem(stem, i + 1, Without(w, stem[i][2]),
                      (stem[i][1] :> Lookup(w, stem[i][2])) @@ w_bb)

\* the head entries: popped when present, skipped when absent
RECURSIVE PopHead(_, _, _, _)
PopHead(head, i, w, w_bb) ==
    IF i > Len(head) THEN [w |-> w, w_bb |-> w_bb]
    ELSE IF head[i][2] \in KeysOf(w)
         THEN PopHead(head, i + 1, Without(w, head[i][2]),
                      (head[i][1] :> Lookup(w, head[i][2])) @@ w_bb)
         ELSE PopHead(head, i + 1, w, w_bb)

\* the chain without its first call, .replace("layer", "ext")
tv_rename_keeps_layer(k_tv) ==
    str_replace(
      str_replace(
        str_replace(
          str_replace(k_tv, "bn", "norm"),
          "downsample", "residual"),
        "residual.0", "residual.conv"),
      "residual.1", "residual.norm")

\* the chain of str.replace calls of the torchvision script
tv_rename(k_tv) ==
    str_replace(
      str_replace(
        str_replace(
          str_replace(
            str_replace(k_tv, "layer", "ext"),
            "bn", "norm"),
          "downsample", "residual"),
        "residual.0", "residual.conv"),
      "residual.1", "residual.norm")

\* the end of the run of digits that starts at s[i]
RECURSIVE DigitsEnd(_, _)
DigitsEnd(s, i) ==
    IF i <= Len(s) /\ IsDigit(CharAt(s, i)) THEN DigitsEnd(s, i + 1) ELSE i

\* the stage rule with lambda match: "ext" + match.group(1)
sub_res_no_decrement(s) ==
    IF MatchAt(s, 1, "res") /\ DigitsEnd(s, 4) > 4
    THEN "ext" \o SubSeq(s, 4, Len(s))
    ELSE s

\* re.compile(r"^res(\d+)") with lambda match: "ext" + str(int(match.group(1)) - 1)
sub_res(s) ==
    IF MatchAt(s, 1, "res") /\ DigitsEnd(s, 4) > 4
    THEN LET e == DigitsEnd(s, 4) IN
         "ext" \o IntToStr(StrToInt(SubSeq(s, 4, e - 1)) - 1) \o SubSeq(s, e, Len(s))
    ELSE s

\* re.compile(r"conv(\d).norm") with replacement r"norm\1"
sub_conv_norm(s) == Sub([kind |-> "conv_norm"], s)

\* re.compile(r"shortcut") with replacement r"residual"
sub_shortcut(s) == Sub(Literal("shortcut", "residual"), s)

\* re.compile(r"residual.weight") with replacement r"residual.conv.weight"
sub_residual_weight(s) == Sub([kind |-> "residual_weight"], s)

\* the rules with the last one applied before the "shortcut" rule
REPLACE_reordered(k_d2) ==
    sub_shortcut(sub_residual_weight(sub_conv_norm(sub_res(k_d2))))

\* for pattern, repl in REPLACE.items(): k_bb = pattern.sub(repl, k_bb)
REPLACE(k_d2) == sub_residual_weight(sub_shortcut(sub_conv_norm(sub_res(k_d2))))

\* k_bb: the key the loop of a script computes from a source key
Rename(script, k) ==
    IF script = "convert_torchvision_resnet" THEN tv_rename(k) ELSE REPLACE(k)

\* for k, v in w.items(): w_bb[k_bb] = v, printing each renaming: a key
\* written more than once keeps the value written last
RenameLoop(script, w, w_bb) ==
    LET k_bb == [i \in DOMAIN w |-> Rename(script, w[i][1])]
        last(k) == CHOOSE i \in DOMAIN w :
                       k_bb[i] = k /\ \A j \in DOMAIN w : k_bb[j] = k => j <= i
    IN  [w_bb |-> [k \in DOMAIN w_bb \cup Range(k_bb) |->
                      IF k \in Range(k_bb) THEN w[last(k)][2] ELSE w_bb[k]],
         printed |-> [i \in DOMAIN w |-> <<w[i][1], k_bb[i]>>]]

\* "# Map to ours": the map a script builds from the checkpoint w
Remap(stem, script, w) ==
    LET s == PopStem(stem, 1, w, <<>>) IN
    IF s.err # "none"
    THEN [err |-> s.err, key |-> s.key, w_bb |-> <<>>, printed |-> <<>>]
    ELSE LET h == PopHead(HEAD, 1, s.w, s.w_bb)
             r == RenameLoop(script, h.w, h.w_bb)
         IN  [err |-> "none", key |-> "", w_bb |-> r.w_bb, printed |-> r.printed]

\* the position of the last dot of s (0 when it has none)
RECURSIVE LastDot(_, _)
LastDot(s, i) ==
    IF i = 0 THEN 0
    ELSE IF CharAt(s, i) = "." THEN i ELSE LastDot(s, i - 1)

\* path.suffix
suffix(path) ==
    IF LastDot(path, Len(path)) = 0 THEN ""
    ELSE SubSeq(path, LastDot(path, Len(path)), Len(path))

\* path.with_suffix(sfx)
with_suffix(path, sfx) ==
    IF LastDot(path, Len(path)) = 0 THEN path \o sfx
    ELSE SubSeq(path, 1, LastDot(path, Len(path)) - 1) \o sfx

\* the w_bb dict as the Python object handed to save_weights
AsPyDict(w_bb) ==
    PyDict([k \in {PyStr(n) : n \in DOMAIN w_bb} |-> PyTensor(w_bb[k.s], "cpu")])

\* one iteration of "for path in args.input": the checkpoint w read from
\* path, remapped and saved.  output is "" when --output is not given.
\* Result: the outcome, what the script built and printed, and the files.
Convert(stem, script, files, path, w, output) ==
    IF suffix(path) \notin {".safetensors", ".pth"}
    THEN [res |-> Raise("ValueError", "Unsupported input format"),
          remapped |-> FALSE, w_bb |-> <<>>, printed |-> <<>>, fs |-> files]
    ELSE LET m == Remap(stem, script, w) IN
         IF m.err # "none"
         THEN [res |-> Raise(m.err, m.key),
               remapped |-> FALSE, w_bb |-> <<>>, printed |-> <<>>, fs |-> files]
         ELSE LET out == IF output # "" THEN output
                         ELSE with_suffix(path, ".bb.safetensors")
                  sv == save_weights(files, AsPyDict(m.w_bb), out)
              IN  [res |-> sv.res, remapped |-> TRUE, w_bb |-> m.w_bb,
                   printed |-> m.printed, fs |-> sv.fs]

convert_torchvision_resnet(files, path, w_tv, output) ==
    Convert(TV_STEM, "convert_torchvision_resnet", files, path, w_tv, output)

convert_detectron2_resnet(files, path, w_d2, output) ==
    Convert(D2_STEM, "convert_detectron2_resnet", files, path, w_d2, output)

(***************************************************************************)
(* The library's ResNet: backbones/resnet/_modules.py                      *)
(*                                                                         *)
(* A module is known here by the names of its parameters and buffers, in   *)
(* state_dict order.                                                       *)
(***************************************************************************)

\* nn.Conv2d(..., bias=False)
Conv2dKeys(prefix) == <<prefix \o ".weight">>

\* nn.BatchNorm2d, the DEFAULT_NORM
NormKeys(prefix) ==
    << prefix \o ".weight", prefix \o ".bias", prefix \o ".running_mean",
       prefix \o ".running_var", prefix \o ".num_batches_tracked" >>

\* nn.Sequential(_build_linear2d(...), norm(...)), or nn.Identity()
ResidualKeys(prefix, residual) ==
    IF residual
    THEN Conv2dKeys(prefix \o ".residual.0") \o NormKeys(prefix \o ".residual.1")
    ELSE <<>>

BasicBlock(prefix, residual) ==
    Conv2dKeys(prefix \o ".conv1") \o NormKeys(prefix \o ".norm1")
    \o Conv2dKeys(prefix \o ".conv2") \o NormKeys(prefix \o ".norm2")
    \o ResidualKeys(prefix, residual)

Bottleneck(prefix, residual) ==
    Conv2dKeys(prefix \o ".conv1") \o NormKeys(prefix \o ".norm1")
    \o Conv2dKeys(prefix \o ".conv2") \o NormKeys(prefix \o ".norm2")
    \o Conv2dKeys(prefix \o ".conv3") \o NormKeys(prefix \o ".bn3")
    \o ResidualKeys(prefix, residual)

expansion(block) == IF block = "BasicBlock" THEN 1 ELSE 4

BlockKeys(block, prefix, residual) ==
    IF block = "BasicBlock" THEN BasicBlock(prefix, residual)
    ELSE Bottleneck(prefix, residual)

\* the blocks 1 .. blocks-1 of a layer, which have no residual branch
RECURSIVE MoreBlocks(_, _, _, _)
MoreBlocks(block, prefix, b, blocks) ==
    IF b >= blocks THEN <<>>
    ELSE BlockKeys(block, prefix \o "." \o IntToStr(b), FALSE)
         \o MoreBlocks(block, prefix, b + 1, blocks)

\* _build_layer with dilate = False
_build_layer(block, prefix, inplanes, planes, blocks, stride) ==
    BlockKeys(block, prefix \o ".0",
              stride # 1 \/ inplanes # planes * expansion(block))
    \o MoreBlocks(block, prefix, 1, blocks)

\* ResNet(block, block_layers, num_classes): stem, layer1 .. layer4, head
ResNet(block, block_layers, num_classes) ==
    Conv2dKeys("stem.conv1") \o NormKeys("stem.norm1")
    \o _build_layer(block, "layer1", 64, 64, block_layers[1], 1)
    \o _build_layer(block, "layer2", 64 * expansion(block), 128, block_layers[2], 2)
    \o _build_layer(block, "layer3", 128 * expansion(block), 256, block_layers[3], 2)
    \o _build_layer(block, "layer4", 256 * expansion(block), 512, block_layers[4], 2)
    \o (IF num_classes THEN <<"head.fc.weight", "head.fc.bias">> ELSE <<>>)

(***************************************************************************)
(* Model binder: load_model of backbones/_io.py, with the recipes of       *)
(* backbones/resnet/recipes.py and extract_features of _extract.py         *)
(***************************************************************************)

\* recipes.resnet18(): ResNet(BasicBlock, (2, 2, 2, 2))
resnet18 == [type |-> "Module", keys |-> ResNet("BasicBlock", <<2, 2, 2, 2>>, FALSE)]

\* pydoc.locate(path): the object a dotted name resolves to, None when it
\* resolves to nothing
pydoc_locate(path) ==
    IF path = "backbones.resnet.recipes.resnet18"
    THEN [type |-> "function", name |-> "resnet18"]
    ELSE IF path = "backbones.__version__" THEN PyStr("1.3.0")
    ELSE PyNone

callable(obj) == isinstance(obj, "function")

\* _locate_config without the callable test
_locate_config_unchecked(path) == Return(pydoc_locate(path))

_locate_config(path) ==
    LET fn == pydoc_locate(path) IN
    IF ~callable(fn)
    THEN Raise("ValueError", "Could not locate configuration function.")
    ELSE Return(fn)

\* json.loads of the feature descriptors met here: a list of names, a mapping
\* from names to exported names, another JSON value, or no JSON at all
json_loads(text) ==
    IF text = "[\"layer1\"]" THEN Return([type |-> "list", names |-> <<"layer1">>])
    ELSE IF text = "{\"layer2\": \"c3\"}"
         THEN Return([type |-> "dict", names |-> <<"layer2">>])
    ELSE IF text = "[\"layer9\"]" THEN Return([type |-> "list", names |-> <<"layer9">>])
    ELSE IF text = "3" THEN Return([type |-> "int", names |-> <<>>])
    ELSE Raise("JSONDecodeError", text)

\* the submodules of ResNet in the order _forward_resnet runs them
ForwardOrder == <<"stem", "layer1", "layer2", "layer3", "layer4", "head">>

IndexOf(q, x) == CHOOSE i \in DOMAIN q : q[i] = x

\* create_feature_extractor(model, features): the graph cut after the last
\* requested output; the submodules it no longer runs are dropped, and a
\* requested name that is no node of the graph is an error
extract_features(model, features) ==
    IF \E n \in Range(features.names) : n \notin Range(ForwardOrder)
    THEN Raise("ValueError", "node not found")
    ELSE LET last == CHOOSE i \in DOMAIN ForwardOrder :
                        /\ ForwardOrder[i] \in Range(features.names)
                        /\ \A n \in Range(features.names) :
                                IndexOf(ForwardOrder, n) <= i
         IN  Return([type |-> "GraphModule",
                     keys |-> SelectSeq(model.keys,
                                LAMBDA k : \E i \in 1..last :
                                    MatchAt(k, 1, ForwardOrder[i] \o "."))])

\* names a weights file may hold that no ResNet has
ExtraKeys == <<"head.proj.weight", "ext1.0.conv1.weight">>

\* the order in which names are listed
KeyOrder == ResNet("BasicBlock", <<2, 2, 2, 2>>, TRUE) \o ExtraKeys

\* model.load_state_dict(data, strict=False): the names of the module the data
\* lacks, and the names of the data the module lacks
load_state_dict(model, data) ==
    [missing_keys |-> SelectSeq(model.keys, LAMBDA k : PyStr(k) \notin DOMAIN data.items),
     unexpected_keys |-> SelectSeq(KeyOrder,
                            LAMBDA k : PyStr(k) \in DOMAIN data.items
                                       /\ k \notin Range(model.keys))]

\* ("\n - " + "\n - ".join(keys)) if len(keys) > 0 else "(none)"
ListKeys(keys) ==
    IF Len(keys) > 0 THEN "\n - " \o Join("\n - ", keys) ELSE "(none)"

BindingMsg(path, keys_miss, keys_ndef) ==
    "Found missing (" \o IntToStr(Len(keys_miss)) \o ") or undefined ("
    \o IntToStr(Len(keys_ndef)) \o ") weights in weights file: " \o path
    \o "\n\n Missing: " \o ListKeys(keys_miss)
    \o "\n\nUndefined: " \o ListKeys(keys_ndef)

\* the state dict is loaded into the graph: the module the caller receives
Bound(model, data, device) ==
    [type |-> "GraphModule", keys |-> model.keys, device |-> device,
     state |-> [k \in Range(model.keys) |-> data.items[PyStr(k)].s]]

\* load_model that raises only for missing weights
load_model_ignores_undefined(files, path, device) ==
    LET p == _parse_path(path)
        wt == load_weights(files, p, device)
    IN  IF wt.err # "none" THEN wt
        ELSE LET data == wt.val.items[1]
                 meta == wt.val.items[2].items
                 config == _locate_config(meta[PyStr("config")].s)
                 features == json_loads(meta[PyStr("features")].s)
                 model == extract_features(resnet18, features.val)
                 ks == load_state_dict(model.val, data)
             IN  IF PyStr("config") \notin DOMAIN meta THEN Raise("KeyError", "config")
                 ELSE IF config.err # "none" THEN config
                 ELSE IF PyStr("features") \notin DOMAIN meta
                      THEN Raise("KeyError", "features")
                 ELSE IF features.err # "none" THEN features
                 ELSE IF features.val.type \notin {"list", "dict"}
                      THEN Raise("AssertionError", features.val.type)
                 ELSE IF model.err # "none" THEN model
                 ELSE IF Len(ks.missing_keys) > 0
                      THEN Raise("RuntimeError",
                                 BindingMsg(p, ks.missing_keys, ks.unexpected_keys))
                 ELSE Return(Bound(model.val, data, device))

\* load_model with meta.get("features", '["layer1"]') in place of meta["features"]
load_model_features_default(files, path, device) ==
    LET p == _parse_path(path)
        wt == load_weights(files, p, device)
    IN  IF wt.err # "none" THEN wt
        ELSE LET data == wt.val.items[1]
                 meta == wt.val.items[2].items
                 config == _locate_config(meta[PyStr("config")].s)
                 features == IF PyStr("features") \in DOMAIN meta
                             THEN json_loads(meta[PyStr("features")].s)
                             ELSE json_loads("[\"layer1\"]")
                 model == extract_features(resnet18, features.val)
                 ks == load_state_dict(model.val, data)
             IN  IF PyStr("config") \notin DOMAIN meta THEN Raise("KeyError", "config")
                 ELSE IF config.err # "none" THEN config
                 ELSE IF features.err # "none" THEN features
                 ELSE IF features.val.type \notin {"list", "dict"}
                      THEN Raise("AssertionError", features.val.type)
                 ELSE IF model.err # "none" THEN model
                 ELSE IF Len(ks.missing_keys) + Len(ks.unexpected_keys) > 0
                      THEN Raise("RuntimeError",
                                 BindingMsg(p, ks.missing_keys, ks.unexpected_keys))
                 ELSE Return(Bound(model.val, data, device))

load_model(files, path, device) ==
    LET p == _parse_path(path)
        wt == load_weights(files, p, device)
    IN  IF wt.err # "none" THEN wt
        ELSE LET data == wt.val.items[1]
                 meta == wt.val.items[2].items
                 config == _locate_config(meta[PyStr("config")].s)
                 features == json_loads(meta[PyStr("features")].s)
                 model == extract_features(resnet18, features.val)
                 ks == load_state_dict(model.val, data)
             IN  IF PyStr("config") \notin DOMAIN meta THEN Raise("KeyError", "config")
                 ELSE IF config.err # "none" THEN config
                 ELSE IF PyStr("features") \notin DOMAIN meta
                      THEN Raise("KeyError", "features")
                 ELSE IF features.err # "none" THEN features
                 ELSE IF features.val.type \notin {"list", "dict"}
                      THEN Raise("AssertionError", features.val.type)
                 ELSE IF model.err # "none" THEN model
                 ELSE IF Len(ks.missing_keys) + Len(ks.unexpected_keys) > 0
                      THEN Raise("RuntimeError",
                                 BindingMsg(p, ks.missing_keys, ks.unexpected_keys))
                 ELSE Return(Bound(model.val, data, device))

\* the collaborators load_model calls, in the order it calls them, up to the
\* one that raises
load_model_calls(files, path, device) ==
    LET wt == load_weights(files, _parse_path(path), device) IN
    <<"load_weights">> \o
    IF wt.err # "none" THEN <<>>
    ELSE LET meta == wt.val.items[2].items IN
         IF PyStr("config") \notin DOMAIN meta THEN <<>>
         ELSE <<"_locate_config">> \o
         IF _locate_config(meta[PyStr("config")].s).err # "none" THEN <<>>
         ELSE <<"config">> \o
         IF PyStr("features") \notin DOMAIN meta THEN <<>>
         ELSE <<"json.loads">> \o
         IF json_loads(meta[PyStr("features")].s).err # "none" THEN <<>>
         ELSE IF json_loads(meta[PyStr("features")].s).val.type \notin {"list", "dict"}
              THEN <<>>
         ELSE <<"extract_features">> \o
         IF extract_features(resnet18, json_loads(meta[PyStr("features")].s).val).err
                # "none"
         THEN <<>>
         ELSE <<"load_state_dict">>

(***************************************************************************)
(* The binder as a process: load_model is called on the artifacts of a     *)
(* file system that holds one weights file                                 *)
(***************************************************************************)

MaxMissing == 2

MaxExtra == 2

\* the names of the graph of resnet18 cut after layer<n>
CutKeys(n) ==
    extract_features(resnet18, [type |-> "list", names |-> <<"layer" \o IntToStr(n)>>]).val.keys

\* names a weights file may lack: the first of the stem, then names of layer1
MissingPool(n) == {CutKeys(1)[13 * i - 12] : i \in 1..n}

\* names a weights file may hold beyond those of the graph
ExtraPool(n) == {KeyOrder[Len(KeyOrder) - i + 1] : i \in 1..n}

\* the names of a cut graph, less up to MaxMissing names, plus up to MaxExtra
BindData ==
    {(Range(CutKeys(n)) \ MissingPool(miss)) \cup ExtraPool(extra) :
        n \in 1..2, miss \in 0..MaxMissing, extra \in 0..MaxExtra}

ConfigValues ==
    {"backbones.resnet.recipes.resnet18", "backbones.__version__", "backbones.nothing"}

FeatureValues == {"[\"layer1\"]", "{\"layer2\": \"c3\"}", "[\"layer9\"]", "3", "layer1"}

\* metadata blocks: none, or a block with or without "config" and "features"
BindMeta ==
    {<<>>}
    \cup {<<[k \in {} |-> ""]>>}
    \cup {<<("config" :> c)>> : c \in ConfigValues}
    \cup {<<("features" :> f)>> : f \in FeatureValues}
    \cup {<<("config" :> c) @@ ("features" :> f)>> :
              c \in ConfigValues, f \in FeatureValues}

InitBind ==
    /\ \E keys \in BindData, meta \in BindMeta :
            fs = ("/m/a.st" :> Artifact([k \in keys |-> "t:" \o k], meta))
    /\ ret = Call("init", <<>>, Return(PyNone))
    /\ todo = 0

LoadModel ==
    \E path \in Paths, device \in Devices :
        \E r \in {load_model(fs, path, device)} :
        /\ ret' = Call("load_model", [path |-> path, device |-> device], r)
                   @@ [calls |-> load_model_calls(fs, path, device)]
        /\ UNCHANGED <<fs, todo>>

NextBind == LoadModel

SpecBind == InitBind /\ [][NextBind]_vars

(***************************************************************************)
(* Inputs of the conversion scripts                                        *)
(***************************************************************************)

\* the checkpoint holding these keys in this order, each with its own tensor
Checkpoint(keys) == [i \in DOMAIN keys |-> <<keys[i], "t:" \o keys[i]>>]

\* blocks per stage of the whole-network checkpoints
MaxBlocks == 1

Archs ==
    {[block |-> b, blocks |-> n, head |-> h] :
        b \in {"BasicBlock", "Bottleneck"}, n \in 1..MaxBlocks, h \in BOOLEAN}

ArchLayers(a) == <<a.blocks, a.blocks, a.blocks, a.blocks>>

\* the names a torchvision ResNet of architecture a gives its state
TvBlock(block, prefix, downsample) ==
    Conv2dKeys(prefix \o ".conv1") \o NormKeys(prefix \o ".bn1")
    \o Conv2dKeys(prefix \o ".conv2") \o NormKeys(prefix \o ".bn2")
    \o (IF block = "Bottleneck"
        THEN Conv2dKeys(prefix \o ".conv3") \o NormKeys(prefix \o ".bn3")
        ELSE <<>>)
    \o (IF downsample
        THEN Conv2dKeys(prefix \o ".downsample.0") \o NormKeys(prefix \o ".downsample.1")
        ELSE <<>>)

RECURSIVE TvBlocks(_, _, _, _, _)
TvBlocks(block, prefix, b, blocks, downsample) ==
    IF b >= blocks THEN <<>>
    ELSE TvBlock(block, prefix \o "." \o IntToStr(b), downsample /\ b = 0)
         \o TvBlocks(block, prefix, b + 1, blocks, downsample)

TvKeys(a) ==
    Conv2dKeys("conv1") \o NormKeys("bn1")
    \o TvBlocks(a.block, "layer1", 0, a.blocks, a.block = "Bottleneck")
    \o TvBlocks(a.block, "layer2", 0, a.blocks, TRUE)
    \o TvBlocks(a.block, "layer3", 0, a.blocks, TRUE)
    \o TvBlocks(a.block, "layer4", 0, a.blocks, TRUE)
    \o (IF a.head THEN <<"fc.weight", "fc.bias">> ELSE <<>>)

\* the names a detectron2 ResNet of architecture a gives its state
D2Conv(prefix) == Conv2dKeys(prefix) \o NormKeys(prefix \o ".norm")

D2Block(block, prefix, shortcut) ==
    D2Conv(prefix \o ".conv1") \o D2Conv(prefix \o ".conv2")
    \o (IF block = "Bottleneck" THEN D2Conv(prefix \o ".conv3") ELSE <<>>)
    \o (IF shortcut THEN D2Conv(prefix \o ".shortcut") ELSE <<>>)

RECURSIVE D2Blocks(_, _, _, _, _)
D2Blocks(block, prefix, b, blocks, shortcut) ==
    IF b >= blocks THEN <<>>
    ELSE D2Block(block, prefix \o "." \o IntToStr(b), shortcut /\ b = 0)
         \o D2Blocks(block, prefix, b + 1, blocks, shortcut)

D2Keys(a) ==
    D2Conv("stem.conv1")
    \o D2Blocks(a.block, "res2", 0, a.blocks, a.block = "Bottleneck")
    \o D2Blocks(a.block, "res3", 0, a.blocks, TRUE)
    \o D2Blocks(a.block, "res4", 0, a.blocks, TRUE)
    \o D2Blocks(a.block, "res5", 0, a.blocks, TRUE)
    \o (IF a.head THEN <<"fc.weight", "fc.bias">> ELSE <<>>)

Sources(overrides) == [i \in DOMAIN overrides |-> overrides[i][2]]

Targets(overrides) == [i \in DOMAIN overrides |-> overrides[i][1]]

\* keys of the body of a network, some of which rename onto the same key, or
\* onto the target of an override
TvBody ==
    << "layer1.0.conv1.weight", "layer1.0.bn1.weight",
       "layer1.0.downsample.0.weight", "layer1.0.residual.0.weight",
       "stem.norm.weight" >>

D2Body ==
    << "res2.0.conv1.weight", "res5.0.conv2.norm.bias",
       "res3.0.shortcut.weight", "res10.0.res4.weight",
       "ext1.0.conv1.weight" >>

\* the selections of the stem keys: all of them, or all but one
StemChoices(stem) ==
    {Range(Sources(stem))} \cup {Range(Sources(stem)) \ {k} : k \in Range(Sources(stem))}

\* the checkpoints made of a selection of stem keys, any head keys and any
\* body keys, in the order stem, head, body
PoolInputs(stem, body) ==
    LET pool == Sources(stem) \o Sources(HEAD) \o body IN
    {Checkpoint(SelectSeq(pool, LAMBDA k : k \in st \cup hd \cup bd)) :
        st \in StemChoices(stem), hd \in SUBSET Range(Sources(HEAD)),
        bd \in SUBSET Range(body)}

ScenarioA == Checkpoint(<<"layer1.0.conv1.weight", "bn1.weight", "fc.weight">>)

ScenarioAWithStem ==
    Checkpoint(<<"layer1.0.conv1.weight", "bn1.weight", "fc.weight", "bn1.bias",
                 "bn1.num_batches_tracked", "bn1.running_mean", "bn1.running_var",
                 "conv1.weight">>)

TvNetworks == {Checkpoint(TvKeys(a)) : a \in Archs}

D2Networks == {Checkpoint(D2Keys(a)) : a \in Archs}

\* <<path, checkpoint, output>> of one run of a script
RunInputs(pool, special) ==
    {<<"/m/in.pth", w, "">> : w \in pool \cup special}
    \cup {<<"/m/in.safetensors", w, "/m/b.st">> : w \in special}
    \cup {<<"/m/in.bin", w, "">> : w \in special}

TvInputs == RunInputs(PoolInputs(TV_STEM, TvBody), TvNetworks \cup {ScenarioA, ScenarioAWithStem})

D2Inputs == RunInputs(PoolInputs(D2_STEM, D2Body), D2Networks)

(***************************************************************************)
(* The conversion scripts as processes: each run converts its input paths  *)
(* one after the other and ends at the first exception                     *)
(***************************************************************************)

MaxInputs == 1

ExistingFile == Serialize(PyDict(FullData), PyDict(EmptyMap))

InitRemap ==
    /\ fs \in {<<>>, "/m/b.st" :> ExistingFile, "/m/in.bb.safetensors" :> ExistingFile}
    /\ ret = Call("init", <<>>, Return(PyNone))
    /\ todo \in 1..MaxInputs

ScriptCall(op, in, r) ==
    [op |-> op, args |-> [path |-> in[1], w |-> in[2], output |-> in[3]],
     err |-> r.res.err, msg |-> r.res.msg,
     val |-> [remapped |-> r.remapped, w_bb |-> r.w_bb, printed |-> r.printed]]

ConvertTorchvision ==
    /\ todo > 0
    /\ \E in \in TvInputs :
        \E r \in {convert_torchvision_resnet(fs, in[1], in[2], in[3])} :
        /\ fs' = r.fs
        /\ ret' = ScriptCall("convert_torchvision_resnet", in, r)
        /\ todo' = IF r.res.err = "none" THEN todo - 1 ELSE 0

ConvertDetectron2 ==
    /\ todo > 0
    /\ \E in \in D2Inputs :
        \E r \in {convert_detectron2_resnet(fs, in[1], in[2], in[3])} :
        /\ fs' = r.fs
        /\ ret' = ScriptCall("convert_detectron2_resnet", in, r)
        /\ todo' = IF r.res.err = "none" THEN todo - 1 ELSE 0

NextRemap == ConvertTorchvision \/ ConvertDetectron2

SpecRemap == InitRemap /\ [][NextRemap]_vars

(***************************************************************************)
(* Properties of the codec                                                 *)
(***************************************************************************)

IsWeightMap(d) ==
    /\ isinstance(d, "dict")
    /\ \A k \in DOMAIN d.items : isinstance(k, "str") /\ isinstance(d.items[k], "Tensor")

IsMetadataMap(m) ==
    /\ isinstance(m, "dict")
    /\ \A k \in DOMAIN m.items : isinstance(k, "str") /\ isinstance(m.items[k], "str")

\* same keys, and under every key a tensor with the same bits
SameTensors(d, e) ==
    /\ DOMAIN d.items = DOMAIN e.items
    /\ \A k \in DOMAIN d.items : d.items[k].s = e.items[k].s

\* the paths that name the same file as path
Aliases(path) == {q \in Paths : AbsPath(q) = AbsPath(path)}

\* the errors the library raises for an in-memory record of the wrong shape
ValidationErrors == {"ValueError", "TypeError"}

\* the error load_data raises for a decoded structure of the wrong shape
FormatError == "TypeError"

\* C1: a record with a non-empty string-to-tensor map and a string-to-string
\* metadata map is saved without error, and load_weights on the same path (on
\* any device) then returns the same keys with bit-identical tensors and
\* exactly the same metadata map.
C1_RoundTrip ==
    (/\ ret.op = "save_weights"
     /\ IsWeightMap(ret.args.wt.items[1])
     /\ DOMAIN ret.args.wt.items[1].items # {}
     /\ IsMetadataMap(ret.args.wt.items[2]))
    => /\ ret.err = "none"
       /\ \A q \in Aliases(ret.args.path), device \in Devices :
            LET r == load_weights(fs, q, device) IN
            /\ r.err = "none"
            /\ SameTensors(r.val.items[1], ret.args.wt.items[1])
            /\ \A k \in DOMAIN r.val.items[1].items :
                    r.val.items[1].items[k].device = device
            /\ r.val.items[2] = ret.args.wt.items[2]

C1_Witness ==
    /\ ret.op = "save_weights"
    /\ ret.err = "none"
    /\ IsWeightMap(ret.args.wt.items[1])
    /\ Cardinality(DOMAIN ret.args.wt.items[1].items) = MaxKeys
    /\ IsMetadataMap(ret.args.wt.items[2])
    /\ Cardinality(DOMAIN ret.args.wt.items[2].items) = 2

\* C2: a save_weights call whose weight map has a non-string key or a
\* non-tensor value, or whose metadata map has a non-string value, raises a
\* validation error and leaves every file as it was (none created, none
\* overwritten).
C2_ValidateBeforeWrite ==
    [][(/\ ret'.op = "save_weights"
        /\ \/ ~IsWeightMap(ret'.args.wt.items[1])
           \/ /\ isinstance(ret'.args.wt.items[2], "dict")
              /\ ~IsMetadataMap(ret'.args.wt.items[2]))
       => (ret'.err \in ValidationErrors /\ fs' = fs)]_vars

C2_Witness ==
    /\ ret.op = "save_weights"
    /\ ~IsWeightMap(ret.args.wt.items[1])
    /\ ret.err \in ValidationErrors
    /\ AbsPath(ret.args.path) \in DOMAIN fs
    /\ "/m/b.st" \notin DOMAIN fs

\* C7: load_meta (and load_metadata) on an artifact without a metadata block
\* returns an empty map when missing_ok is true and raises the format error
\* when it is false; on an artifact with a metadata block both return the block.
C7_MissingMetadata ==
    (/\ ret.op \in {"load_meta", "load_metadata"}
     /\ AbsPath(ret.args.path) \in DOMAIN fs)
    => LET block == fs[AbsPath(ret.args.path)].metadata IN
       IF block = <<>>
       THEN IF ret.args.missing_ok
            THEN ret.err = "none" /\ ret.val = PyDict(EmptyMap)
            ELSE ret.err = FormatError
       ELSE /\ ret.err = "none"
            /\ IsMetadataMap(ret.val)
            /\ {k.s : k \in DOMAIN ret.val.items} = DOMAIN block[1]
            /\ \A k \in DOMAIN ret.val.items : ret.val.items[k].s = block[1][k.s]

C7_Witness ==
    /\ ret.op = "load_meta"
    /\ AbsPath(ret.args.path) \in DOMAIN fs
    /\ fs[AbsPath(ret.args.path)].metadata = <<>>
    /\ ~ret.args.missing_ok
    /\ ret.err = FormatError

(***************************************************************************)
(* Properties of the conversion scripts                                    *)
(***************************************************************************)

IsConvert ==
    ret.op \in {"convert_torchvision_resnet", "convert_detectron2_resnet"}

\* the script read its input file
Readable == suffix(ret.args.path) \in {".safetensors", ".pth"}

StemOf(op) == IF op = "convert_torchvision_resnet" THEN TV_STEM ELSE D2_STEM

Overrides(op) == StemOf(op) \o HEAD

\* the key the script of operation op writes the entry of source key k under
OutKey(op, k) ==
    IF k \in Range(Sources(Overrides(op)))
    THEN LET o == Overrides(op) IN o[CHOOSE i \in DOMAIN o : o[i][2] = k][1]
    ELSE IF op = "convert_torchvision_resnet" THEN tv_rename(k) ELSE REPLACE(k)

OutKeys(op, w) == [i \in DOMAIN w |-> OutKey(op, w[i][1])]

\* two distinct source keys of w are written under the same key
Collides(op, w) == Cardinality(Range(OutKeys(op, w))) < Len(w)

HasStem(op, w) == Range(Sources(StemOf(op))) \subseteq KeysOf(w)

\* C3: a conversion whose renaming writes two distinct source keys (or a
\* renamed key and the target of a stem or head override) under the same output
\* key fails while it builds the map; it never completes the map with one of
\* the two values overwritten.
C3_NoSilentOverwrite ==
    (/\ IsConvert
     /\ Readable
     /\ HasStem(ret.op, ret.args.w)
     /\ Collides(ret.op, ret.args.w))
    => (ret.err # "none" /\ ~ret.val.remapped)

\* C4: when no two source keys are written under the same key, the map a
\* conversion builds has exactly as many keys as the source has, and holds
\* under the output key of every source key the very tensor of that source key.
C4_RemapBijection ==
    (/\ IsConvert
     /\ ret.val.remapped
     /\ ~Collides(ret.op, ret.args.w))
    => /\ Cardinality(DOMAIN ret.val.w_bb) = Len(ret.args.w)
       /\ \E out \in {OutKeys(ret.op, ret.args.w)} :
            \A i \in DOMAIN ret.args.w :
                /\ out[i] \in DOMAIN ret.val.w_bb
                /\ ret.val.w_bb[out[i]] = ret.args.w[i][2]

C4_Witness ==
    /\ ret.op = "convert_torchvision_resnet"
    /\ ret.val.remapped
    /\ ~Collides(ret.op, ret.args.w)
    /\ Len(ret.args.w) = 10
    /\ "fc.weight" \in KeysOf(ret.args.w)
    /\ "layer1.0.downsample.0.weight" \in KeysOf(ret.args.w)

\* C5: the keys a conversion builds from the checkpoint of a ResNet in the
\* torchvision (or detectron2) naming are exactly the parameter and buffer
\* names of the library's ResNet of the same architecture.
C5_ConvertedKeysBind ==
    \A a \in Archs :
        (/\ IsConvert
         /\ Readable
         /\ ret.args.w = Checkpoint(IF ret.op = "convert_torchvision_resnet"
                                    THEN TvKeys(a) ELSE D2Keys(a)))
        => /\ ret.val.remapped
           /\ DOMAIN ret.val.w_bb = Range(ResNet(a.block, ArchLayers(a), a.head))

C9_ScenarioA_AsStated ==
    (/\ ret.op = "convert_torchvision_resnet"
     /\ Readable
     /\ ret.args.w = ScenarioA)
    => /\ ret.val.remapped
       /\ DOMAIN ret.val.w_bb =
            {"ext1.0.conv1.weight", "stem.norm.weight", "head.proj.weight"}

\* C9 amended: with exactly those three keys the torchvision conversion raises
\* KeyError for bn1.bias; with the five other stem source keys added it builds
\* the map with exactly the keys ext1.0.conv1.weight, head.proj.weight and the
\* six stem targets, each holding the tensor of its source key.
C9_ScenarioA_Amended ==
    (ret.op = "convert_torchvision_resnet" /\ Readable)
    => /\ ret.args.w = ScenarioA
            => (ret.err = "KeyError" /\ ret.msg = "bn1.bias" /\ ~ret.val.remapped)
       /\ ret.args.w = ScenarioAWithStem
            => /\ ret.val.remapped
               /\ DOMAIN ret.val.w_bb =
                    {"ext1.0.conv1.weight", "head.proj.weight"}
                    \cup Range(Targets(TV_STEM))
               /\ ret.val.w_bb["ext1.0.conv1.weight"] = "t:layer1.0.conv1.weight"
               /\ ret.val.w_bb["head.proj.weight"] = "t:fc.weight"
               /\ ret.val.w_bb["stem.norm.weight"] = "t:bn1.weight"

C9_Witness ==
    /\ ret.op = "convert_torchvision_resnet"
    /\ ret.args.w = ScenarioAWithStem
    /\ ret.val.remapped
    /\ "ext1.0.conv1.weight" \in DOMAIN ret.val.w_bb

\* the number of places of s where "res" is followed by a digit
ResCount(s) ==
    Cardinality({j \in 1..Len(s) : MatchAt(s, j, "res") /\ IsDigitAt(s, j + 3)})

\* C10: the detectron2 conversion renames every key it passes through its
\* rules that starts with res<N> so that this prefix becomes ext<N-1>, the
\* rest of the key being rewritten by the other rules only: a later res<M> is
\* kept, and the digit of conv<d>.norm is carried over unchanged.
C10_StageRenumbering ==
    (ret.op = "convert_detectron2_resnet" /\ ret.val.remapped)
    => \A i \in DOMAIN ret.val.printed :
        LET src == ret.val.printed[i][1]
            dst == ret.val.printed[i][2]
            e == DigitsEnd(src, 4)
        IN  /\ (MatchAt(src, 1, "res") /\ e > 4)
                => /\ dst = "ext" \o IntToStr(StrToInt(SubSeq(src, 4, e - 1)) - 1)
                              \o sub_residual_weight(sub_shortcut(sub_conv_norm(
                                     SubSeq(src, e, Len(src)))))
                   /\ ResCount(dst) = ResCount(src) - 1
            /\ src = "res2.0.conv1.weight" => dst = "ext1.0.conv1.weight"
            /\ src = "res10.0.res4.weight" => dst = "ext9.0.res4.weight"
            /\ src = "res5.0.conv2.norm.bias" => dst = "ext4.0.norm2.bias"

C10_Witness ==
    /\ ret.op = "convert_detectron2_resnet"
    /\ ret.val.remapped
    /\ \E i \in DOMAIN ret.val.printed :
        ret.val.printed[i] = <<"res10.0.res4.weight", "ext9.0.res4.weight">>
    /\ \E i \in DOMAIN ret.val.printed :
        ret.val.printed[i] = <<"res5.0.conv2.norm.bias", "ext4.0.norm2.bias">>

(***************************************************************************)
(* Properties of the binder                                                *)
(***************************************************************************)

\* the call reached load_state_dict: the file was read, the factory located
\* and the graph cut
Binds ==
    /\ ret.op = "load_model"
    /\ ret.err \in {"none", "RuntimeError"}

\* the names of the file the call read
FileKeys == DOMAIN fs[AbsPath(ret.args.path)].tensors

\* the names of the feature-restricted graph of the file the call read
GraphKeys ==
    LET features == fs[AbsPath(ret.args.path)].metadata[1]["features"] IN
    Range(CutKeys(IF features = "[\"layer1\"]" THEN 1 ELSE 2))

\* the text of msg between the first "begin" and the next "end" ("" for the
\* end of msg)
Between(msg, begin, end) ==
    LET b == FirstMatch(msg, 1, Literal(begin, "")) + Len(begin)
        e == IF end = "" THEN Len(msg) + 1 ELSE FirstMatch(msg, b, Literal(end, ""))
    IN  SubSeq(msg, b, e - 1)

\* the names a section of the message lists, one per "\n - " line
RECURSIVE ListedFrom(_, _)
ListedFrom(section, i) ==
    LET j == FirstMatch(section, i, Literal("\n - ", "")) IN
    IF j = 0 THEN <<SubSeq(section, i, Len(section))>>
    ELSE <<SubSeq(section, i, j - 1)>> \o ListedFrom(section, j + 4)

Listed(section) == Tail(ListedFrom(section, 1))

\* a section lists exactly the names of K, each once, or is "(none)"
Lists(section, K) ==
    IF K = {} THEN section = "(none)"
    ELSE /\ MatchAt(section, 1, "\n - ")
         /\ Range(Listed(section)) = K
         /\ Len(Listed(section)) = Cardinality(K)

\* C6: load_model returns a module only when the file holds exactly the names
\* of the feature-restricted graph; when names are missing or unexpected it
\* raises the binding error (RuntimeError), whose message lists every missing
\* name under "Missing:" and every unexpected name under "Undefined:", with
\* "(none)" for an empty list, and gives the two counts.
C6_BindingReport ==
    Binds =>
        LET missing == GraphKeys \ FileKeys
            unexpected == FileKeys \ GraphKeys
        IN  IF missing \cup unexpected = {}
            THEN /\ ret.err = "none"
                 /\ ret.val.type = "GraphModule"
                 /\ DOMAIN ret.val.state = GraphKeys
                 /\ \A k \in GraphKeys :
                        ret.val.state[k] = fs[AbsPath(ret.args.path)].tensors[k]
            ELSE /\ ret.err = "RuntimeError"
                 /\ ret.val = PyNone
                 /\ Lists(Between(ret.msg, "Missing: ", "\n\nUndefined: "), missing)
                 /\ Lists(Between(ret.msg, "Undefined: ", ""), unexpected)
                 /\ Contains(ret.msg, "missing (" \o IntToStr(Cardinality(missing)) \o ")")
                 /\ Contains(ret.msg,
                             "undefined (" \o IntToStr(Cardinality(unexpected)) \o ")")

\* one parameter missing and one extra name: each list holds that one name
C6_Witness ==
    /\ ret.op = "load_model"
    /\ ret.err = "RuntimeError"
    /\ GraphKeys \ FileKeys = {"stem.conv1.weight"}
    /\ FileKeys \ GraphKeys = {"ext1.0.conv1.weight"}
    /\ Listed(Between(ret.msg, "Missing: ", "\n\nUndefined: ")) = <<"stem.conv1.weight">>
    /\ Listed(Between(ret.msg, "Undefined: ", "")) = <<"ext1.0.conv1.weight">>

(***************************************************************************)
(* Properties of the save step of the conversion scripts                   *)
(***************************************************************************)

\* the path a script saves to: --output, or the input with .bb.safetensors
OutputOf(args) ==
    IF args.output # "" THEN args.output ELSE with_suffix(args.path, ".bb.safetensors")

\* C11: a conversion of a checkpoint that has every stem source key and in
\* which no two source keys are written under the same key ends without error,
\* and load_weights on the output path then returns the map the script built.
C11_ConversionEmitsArtifact ==
    (/\ IsConvert
     /\ Readable
     /\ HasStem(ret.op, ret.args.w)
     /\ ~Collides(ret.op, ret.args.w))
    => /\ ret.err = "none"
       /\ \E r \in {load_weights(fs, OutputOf(ret.args), "cpu")} :
            /\ r.err = "none"
            /\ {k.s : k \in DOMAIN r.val.items[1].items} = DOMAIN ret.val.w_bb
            /\ \A k \in DOMAIN r.val.items[1].items :
                    r.val.items[1].items[k].s = ret.val.w_bb[k.s]

(***************************************************************************)
(* The predicates check_data and check_meta called on their own            *)
(***************************************************************************)

\* keys and values an object handed to a predicate may hold
CheckKeys == {PyStr(KeyName(i)) : i \in 1..MaxKeys} \cup {PyInt("1")}

CheckVals == {PyTensor("t1", "cpu"), PyStr("x"), PyInt("7")}

\* every dict over these keys and values, and objects that are no dict
CheckInputs ==
    {PyDict(f) : f \in UNION {[S -> CheckVals] : S \in SUBSET CheckKeys}}
    \cup {PyNone, PyStr("x"), PyInt("7"), PyTensor("t1", "cpu"),
          PyTuple(<<PyStr("k1"), PyTensor("t1", "cpu")>>)}

InitCheck ==
    /\ fs = <<>>
    /\ ret = Call("init", <<>>, Return(PyNone))
    /\ todo = 0

CheckData ==
    \E state \in CheckInputs :
        /\ ret' = Call("check_data", [state |-> state], check_data(state))
        /\ UNCHANGED <<fs, todo>>

CheckMeta ==
    \E meta \in CheckInputs :
        /\ ret' = Call("check_meta", [meta |-> meta], check_meta(meta))
        /\ UNCHANGED <<fs, todo>>

NextCheck == CheckData \/ CheckMeta

SpecCheck == InitCheck /\ [][NextCheck]_vars

\* C12: check_data returns, for every object, whether it is a dict from
\* strings to tensors, and check_meta whether it is a dict from strings to
\* strings; neither raises, whatever the object is.
C12_TotalPredicates ==
    /\ ret.op = "check_data"
        => (ret.err = "none" /\ ret.val = IsWeightMap(ret.args.state))
    /\ ret.op = "check_meta"
        => (ret.err = "none" /\ ret.val = IsMetadataMap(ret.args.meta))

(***************************************************************************)
(* Properties of the steps of the binder                                   *)
(***************************************************************************)

\* load_model read the file it was given
ReadsFile == ret.op = "load_model" /\ AbsPath(ret.args.path) \in DOMAIN fs

\* the metadata load_model read: the block of the file, empty when it has none
FileMeta ==
    LET block == fs[AbsPath(ret.args.path)].metadata IN
    IF block = <<>> THEN [k \in {} |-> ""] ELSE block[1]

\* no module was built, cut or bound
NothingBuilt ==
    Range(ret.calls) \cap {"config", "extract_features", "load_state_dict"} = {}

\* C13 as stated: load_model raises the missing-metadata error (KeyError) for
\* "config" when the metadata lacks "config", and for "features" whenever the
\* metadata has "config" but lacks "features".
C13_RequiredMetadata_AsStated ==
    ReadsFile =>
        /\ "config" \notin DOMAIN FileMeta
            => (ret.err = "KeyError" /\ ret.msg = "config" /\ NothingBuilt)
        /\ ("config" \in DOMAIN FileMeta /\ "features" \notin DOMAIN FileMeta)
            => (ret.err = "KeyError" /\ ret.msg = "features")

\* C13 amended: load_model raises KeyError for "config" when the metadata lacks
\* "config", before it locates or calls any factory; when "config" names a
\* factory and the metadata lacks "features" it raises KeyError for "features"
\* after the factory was called; in both cases nothing is returned, no graph is
\* cut and no weight is bound.
C13_RequiredMetadata ==
    ReadsFile =>
        /\ "config" \notin DOMAIN FileMeta
            => /\ ret.err = "KeyError" /\ ret.msg = "config" /\ ret.val = PyNone
               /\ ret.calls = <<"load_weights">>
        /\ (/\ "config" \in DOMAIN FileMeta
            /\ callable(pydoc_locate(FileMeta["config"]))
            /\ "features" \notin DOMAIN FileMeta)
            => /\ ret.err = "KeyError" /\ ret.msg = "features" /\ ret.val = PyNone
               /\ ret.calls = <<"load_weights", "_locate_config", "config">>

\* the file has a factory for "config" and no "features"
C13_Witness ==
    /\ ReadsFile
    /\ DOMAIN FileMeta = {"config"}
    /\ callable(pydoc_locate(FileMeta["config"]))
    /\ ret.err = "KeyError"
    /\ ret.msg = "features"

\* C14: when "config" names nothing, or names an object that is not callable,
\* load_model raises the resolution error (ValueError) right after the lookup:
\* no factory is called, no graph is cut, no weight is bound and nothing is
\* returned.
C14_ConfigResolution ==
    (/\ ReadsFile
     /\ "config" \in DOMAIN FileMeta
     /\ ~callable(pydoc_locate(FileMeta["config"])))
    => /\ ret.err = "ValueError"
       /\ ret.val = PyNone
       /\ ret.calls = <<"load_weights", "_locate_config">>
       /\ NothingBuilt

\* "config" names an object that is found and is not callable, in a file that
\* would otherwise bind
C14_Witness ==
    /\ ReadsFile
    /\ "config" \in DOMAIN FileMeta
    /\ pydoc_locate(FileMeta["config"]) = PyStr("1.3.0")
    /\ "features" \in DOMAIN FileMeta
    /\ FileKeys = GraphKeys
    /\ ret.err = "ValueError"

(***************************************************************************)
(* The loaders over a decoder whose output is not trusted: load_data and   *)
(* load_meta take what the decoder returns as an object                    *)
(***************************************************************************)

\* what the decoder may return for the metadata of a file
MetaInputs ==
    { PyNone, PyStr("x"), PyTuple(<<PyStr("config"), PyStr("c1")>>),
      PyDict(EmptyMap),
      PyDict(PyStr("config") :> PyStr("c1")),
      PyDict(PyStr("config") :> PyInt("3")),
      PyDict(PyInt("1") :> PyStr("c1")),
      PyDict((PyStr("config") :> PyStr("c1")) @@ (PyInt("1") :> PyTensor("t1", "cpu"))) }

InitDecode ==
    /\ \E data \in CheckInputs, meta \in MetaInputs :
            fs = ("/m/a.st" :> Foreign(data, meta))
    /\ ret = Call("init", <<>>, Return(PyNone))
    /\ todo = 0

NextDecode == LoadData \/ LoadMeta \/ LoadWeights

SpecDecode == InitDecode /\ [][NextDecode]_vars

\* the error carries the sets of the types of the keys and of the values of d
ReportsTypes(msg, d) ==
    /\ "key_types" \in DOMAIN msg
    /\ "val_types" \in DOMAIN msg
    /\ isinstance(d, "dict") => /\ msg.key_types = {k.type : k \in DOMAIN d.items}
                                /\ msg.val_types = {v.type : v \in Values(d.items)}

C16_EmptyRoundTrip ==
    (/\ ret.op = "save_weights"
     /\ ret.args.wt = PyTuple(<<PyDict(EmptyMap), PyDict(EmptyMap)>>))
    => /\ ret.err = "none"
       /\ AbsPath(ret.args.path) \in DOMAIN fs
       /\ \A q \in Aliases(ret.args.path), device \in Devices :
            LET r == load_weights(fs, q, device) IN
            /\ r.err = "none"
            /\ r.val = PyTuple(<<PyDict(EmptyMap), PyDict(EmptyMap)>>)

\* the empty record replaced a file that held tensors and metadata
C16_Witness ==
    /\ ret.op = "save_weights"
    /\ ret.args.wt = PyTuple(<<PyDict(EmptyMap), PyDict(EmptyMap)>>)
    /\ ret.err = "none"
    /\ load_weights(fs, ret.args.path, "cpu").val
            = PyTuple(<<PyDict(EmptyMap), PyDict(EmptyMap)>>)
    /\ Cardinality(DOMAIN fs) = 2

\* a file save_file wrote, with or without a metadata block
IsValidArtifact(files, path) ==
    /\ AbsPath(path) \in DOMAIN files
    /\ ~IsForeign(files[AbsPath(path)])

\* C18: for every valid artifact load_weights succeeds, load_data on the same
\* path and device returns exactly its weight-map half and load_meta (with
\* missing_ok left true) exactly its metadata half; on an artifact without a
\* metadata block the metadata half is the empty map.
C18_LoadWeightsComposition ==
    (/\ ret.op = "load_weights"
     /\ IsValidArtifact(fs, ret.args.path))
    => /\ ret.err = "none"
       /\ load_data(fs, ret.args.path, ret.args.device) = Return(ret.val.items[1])
       /\ load_meta(fs, ret.args.path, TRUE) = Return(ret.val.items[2])
       /\ fs[AbsPath(ret.args.path)].metadata = <<>>
            => ret.val.items[2] = PyDict(EmptyMap)

\* load_weights succeeded on a file with tensors and no metadata block
C18_Witness ==
    /\ ret.op = "load_weights"
    /\ ret.err = "none"
    /\ IsValidArtifact(fs, ret.args.path)
    /\ fs[AbsPath(ret.args.path)].metadata = <<>>
    /\ Cardinality(DOMAIN ret.val.items[1].items) = MaxKeys
    /\ ret.val.items[2] = PyDict(EmptyMap)

\* the last call was a save_weights that wrote the file of path
WroteTo(path) ==
    /\ ret.op = "save_weights"
    /\ ret.err = "none"
    /\ AbsPath(ret.args.path) = AbsPath(path)

\* C20: after a successful save_weights of a record to a path, load_weights on
\* that path returns exactly that record, whatever the file held before; and a
\* load, a failed save or a save to another file leaves the outcome of
\* load_weights on the path as it was. Together: load_weights returns the record
\* most recently saved to the path.
C20_LatestSaveWins ==
    /\ [](\A p \in Paths, device \in Devices :
            (/\ WroteTo(p)
             /\ IsWeightMap(ret.args.wt.items[1])
             /\ IsMetadataMap(ret.args.wt.items[2]))
            => \A r \in {load_weights(fs, p, device)} :
                    /\ r.err = "none"
                    /\ SameTensors(r.val.items[1], ret.args.wt.items[1])
                    /\ r.val.items[2] = ret.args.wt.items[2])
    /\ [][\/ /\ ~(ret'.op = "save_weights" /\ ret'.err = "none")
              /\ fs' = fs
           \/ \A p \in Paths, device \in Devices :
                \/ WroteTo(p)'
                \/ load_weights(fs', p, device) = load_weights(fs, p, device)]_vars

\* a record with one key and no metadata entries was saved over nothing or over
\* an earlier file, while another file holds more keys and metadata
C20_Witness ==
    /\ ret.op = "save_weights"
    /\ ret.err = "none"
    /\ Cardinality(DOMAIN fs) = 2
    /\ LET f == AbsPath(ret.args.path)
           g == CHOOSE h \in DOMAIN fs : h # AbsPath(ret.args.path)
       IN  /\ DOMAIN fs[f].tensors = {KeyName(1)}
           /\ fs[f].metadata = <<EmptyMap>>
           /\ Cardinality(DOMAIN fs[g].tensors) = MaxKeys
           /\ fs[g].metadata # <<>>
           /\ DOMAIN fs[g].metadata[1] # {}

\* the rules of a script in the order the script applies them
RuleOrder(op) ==
    IF op = "convert_torchvision_resnet"
    THEN <<"layer", "bn", "downsample", "residual.0", "residual.1">>
    ELSE <<"^res(\\d+)", "conv(\\d).norm", "shortcut", "residual.weight">>

\* one rule applied to one string
ApplyRule(rule, s) ==
    CASE rule = "layer" -> str_replace(s, "layer", "ext")
      [] rule = "bn" -> str_replace(s, "bn", "norm")
      [] rule = "downsample" -> str_replace(s, "downsample", "residual")
      [] rule = "residual.0" -> str_replace(s, "residual.0", "residual.conv")
      [] rule = "residual.1" -> str_replace(s, "residual.1", "residual.norm")
      [] rule = "^res(\\d+)" -> sub_res(s)
      [] rule = "conv(\\d).norm" -> sub_conv_norm(s)
      [] rule = "shortcut" -> sub_shortcut(s)
      [] rule = "residual.weight" -> sub_residual_weight(s)

\* rule i, then rule i + 1 on its result, and so on to the last rule
RECURSIVE ApplyFrom(_, _, _)
ApplyFrom(rules, i, s) ==
    IF i > Len(rules) THEN s ELSE ApplyFrom(rules, i + 1, ApplyRule(rules[i], s))

\* C19: every source key that no stem or head override takes is written under
\* the key obtained by applying the rules of the script one after the other in
\* their order, each to the result of the one before; so "downsample" (then
\* "residual.0") and "shortcut" (then "residual.weight") are rewritten twice,
\* and a key that no rule changes is written under its own name.
C19_SequentialRules ==
    (IsConvert /\ ret.val.remapped)
    => /\ {ret.val.printed[i][1] : i \in DOMAIN ret.val.printed}
            = KeysOf(ret.args.w) \ Range(Sources(Overrides(ret.op)))
       /\ \A i \in DOMAIN ret.val.printed :
            LET src == ret.val.printed[i][1]
                dst == ret.val.printed[i][2]
            IN  /\ dst = ApplyFrom(RuleOrder(ret.op), 1, src)
                /\ dst \in DOMAIN ret.val.w_bb
                /\ (\A j \in DOMAIN RuleOrder(ret.op) :
                        ApplyRule(RuleOrder(ret.op)[j], src) = src) => dst = src
                /\ (ret.op = "convert_torchvision_resnet"
                    /\ src = "layer1.0.downsample.0.weight")
                        => dst = "ext1.0.residual.conv.weight"
                /\ (ret.op = "convert_detectron2_resnet"
                    /\ src = "res3.0.shortcut.weight")
                        => dst = "ext2.0.residual.conv.weight"

\* a detectron2 conversion renamed a shortcut weight and passed a key through
\* unchanged
C19_Witness ==
    /\ ret.op = "convert_detectron2_resnet"
    /\ ret.val.remapped
    /\ \E i \in DOMAIN ret.val.printed :
            /\ ret.val.printed[i][1] = "res3.0.shortcut.weight"
            /\ ret.val.printed[i][2] = "ext2.0.residual.conv.weight"
    /\ \E i \in DOMAIN ret.val.printed : ret.val.printed[i][1] = ret.val.printed[i][2]

(***************************************************************************)
(* The meta command: backbones/_cli.py                                     *)
(***************************************************************************)

\* str.lower on one character of an answer
LowerChar(c) ==
    CASE c = "Y" -> "y" [] c = "E" -> "e" [] c = "S" -> "s"
      [] c = "N" -> "n" [] c = "O" -> "o" [] OTHER -> c

RECURSIVE lower(_)
lower(s) == IF s = "" THEN "" ELSE LowerChar(CharAt(s, 1)) \o lower(SubSeq(s, 2, Len(s)))

\* query_bool that takes any answer that is not a "no" for a "yes"
query_bool_lenient(answers, default) ==
    IF answers = <<>> THEN Raise("EOFError", "")
    ELSE Return(lower(answers[1]) \notin {"no", "n"})

\* cli.query_bool(question, default=default), the operator typing the lines
\* of answers one per prompt; input() raises EOFError when they run out
RECURSIVE query_bool(_, _)
query_bool(answers, default) ==
    IF answers = <<>> THEN Raise("EOFError", "")
    ELSE LET choice == lower(answers[1]) IN
         IF default \in BOOLEAN /\ choice = "" THEN Return(default)
         ELSE IF choice \in {"yes", "y", "ye"} THEN Return(TRUE)
         ELSE IF choice \in {"no", "n"} THEN Return(FALSE)
         ELSE query_bool(Tail(answers), default)

\* for k, v in overrides.items(): del meta[k] for an empty value (KeyError
\* when k is not a key), meta[k] = v otherwise
RECURSIVE meta_overrides(_, _, _)
meta_overrides(items, overrides, i) ==
    IF i > Len(overrides) THEN Return(PyDict(items))
    ELSE LET k == PyStr(overrides[i][1]) IN
         IF overrides[i][2] = ""
         THEN IF k \notin DOMAIN items THEN Raise("KeyError", overrides[i][1])
              ELSE meta_overrides(Restrict(items, DOMAIN items \ {k}), overrides, i + 1)
         ELSE meta_overrides((k :> PyStr(overrides[i][2])) @@ items, overrides, i + 1)

\* meta(path, yes=yes, **overrides): res the outcome, fs the files after it,
\* printed the metadata written to stdout, calls the calls made
meta(files, path, yes, overrides, answers) ==
    LET stop(res, printed, calls) ==
            [res |-> res, fs |-> files, printed |-> printed, calls |-> calls]
    IN
    \* meta = load_meta(path, missing_ok=True)
    CHOOSE out \in
      { LET m == load_meta(files, path, TRUE) IN
        IF m.err # "none" THEN stop(m, PyNone, <<"load_meta">>)
        ELSE LET new == meta_overrides(m.val.items, overrides, 1) IN
        IF new.err # "none" THEN stop(new, PyNone, <<"load_meta">>)
        ELSE IF Len(overrides) = 0
             THEN stop(Return(PyNone), new.val, <<"load_meta">>)
        ELSE LET ask == IF yes THEN Return(TRUE) ELSE query_bool(answers, FALSE)
                 asked == IF yes THEN <<"load_meta">> ELSE <<"load_meta", "query_bool">>
             IN
        IF ask.err # "none" THEN stop(ask, new.val, asked)
        ELSE IF ~ask.val THEN stop(Return(PyNone), new.val, asked)
        ELSE LET data == load_data(files, path, "cpu") IN
        IF data.err # "none" THEN stop(data, new.val, asked \o <<"load_data">>)
        ELSE LET saved == save_weights(files, PyTuple(<<data.val, new.val>>), path) IN
             [res |-> saved.res, fs |-> saved.fs, printed |-> new.val,
              calls |-> asked \o <<"load_data", "save_weights">>] } : TRUE

\* overrides on the command line
MaxOverrides == 2

\* lines the operator types
MaxAnswers == 2

OverrideKey(i) == IF i = 1 THEN "config" ELSE "x" \o IntToStr(i)

\* up to MaxOverrides key=value arguments with distinct keys; an empty value
\* asks for the key to be deleted
OverrideInputs ==
    UNION {{ov \in [1..n -> {<<OverrideKey(i), v>> : i \in 1..MaxOverrides, v \in {"", "c9"}}] :
                \A i, j \in 1..n : ov[i][1] = ov[j][1] => i = j} : n \in 0..MaxOverrides}

AnswerInputs ==
    UNION {[1..n -> {"YES", "ye", "n", "", "maybe"}] : n \in 0..MaxAnswers}

\* no file, or one file saved from a valid record
InitCli ==
    /\ fs \in {<<>>} \cup {save_weights(<<>>, PyTuple(<<d, m>>), "/m/a.st").fs :
                              d \in ValidData, m \in ValidMeta \cup {PyNone}}
    /\ ret = Call("init", <<>>, Return(PyNone))
    /\ todo = 0

\* one command per run of the program
MetaCommand ==
    /\ ret.op = "init"
    /\ \E path \in Paths, yes \in BOOLEAN, overrides \in OverrideInputs,
          answers \in AnswerInputs :
          \E r \in {meta(fs, path, yes, overrides, answers)} :
          /\ fs' = r.fs
          /\ ret' = Call("meta", [path |-> path, yes |-> yes, overrides |-> overrides,
                                  answers |-> answers], r.res)
                     @@ [printed |-> r.printed, calls |-> r.calls]
          /\ UNCHANGED todo

NextCli == MetaCommand

SpecCli == InitCli /\ [][NextCli]_vars

(***************************************************************************)
(* Properties of the meta command                                          *)
(***************************************************************************)

\* the yes flag, or the first line the prompt accepts is a "yes": lines that
\* are neither a yes, a no nor empty are asked again
Confirmed(yes, answers) ==
    \/ yes
    \/ \E i \in DOMAIN answers :
        /\ lower(answers[i]) \in {"y", "ye", "yes"}
        /\ \A j \in 1..(i - 1) : lower(answers[j]) \notin {"y", "ye", "yes", "n", "no", ""}

\* the metadata map m with the overrides applied: keys given an empty value
\* removed, the others set
Overridden(m, overrides) ==
    LET given == {overrides[i][1] : i \in DOMAIN overrides}
        value(k) == overrides[CHOOSE i \in DOMAIN overrides : overrides[i][1] = k][2]
        keys == ({k.s : k \in DOMAIN m.items} \ {k \in given : value(k) = ""})
                \cup {k \in given : value(k) # ""}
    IN  PyDict([k \in {PyStr(n) : n \in keys} |->
                    IF k.s \in given THEN PyStr(value(k.s)) ELSE m.items[k]])

\* every key the overrides delete is a key of the metadata map m
Deletable(m, overrides) ==
    \A i \in DOMAIN overrides :
        overrides[i][2] = "" => PyStr(overrides[i][1]) \in DOMAIN m.items

\* C17: the meta command calls save_weights only when at least one override
\* was given and the operator confirmed (the yes flag or a "yes" at the prompt);
\* without overrides, or when the operator declines, no file changes; and when
\* it rewrites the file, the weight map loaded from it afterwards is the one
\* loaded before, the metadata map is the printed one, which is the old map
\* with the overrides applied, and no other file changes.
C17_MetaWriteGate ==
    [][ret'.op = "meta" =>
        LET args == ret'.args
            wrote == "save_weights" \in Range(ret'.calls)
            gate == Len(args.overrides) > 0 /\ Confirmed(args.yes, args.answers)
            before == load_meta(fs, args.path, TRUE)
        IN  /\ wrote => gate
            /\ ~gate => fs' = fs
            /\ ~wrote => fs' = fs
            /\ (gate /\ before.err = "none" /\ Deletable(before.val, args.overrides))
                    => (wrote /\ ret'.err = "none")
            /\ wrote =>
                /\ ret'.err = "none"
                /\ load_data(fs, args.path, "cpu").err = "none"
                /\ load_data(fs', args.path, "cpu") = load_data(fs, args.path, "cpu")
                /\ load_meta(fs', args.path, TRUE) = Return(ret'.printed)
                /\ ret'.printed = Overridden(before.val, args.overrides)
                /\ \A f \in DOMAIN fs' : f # AbsPath(args.path) => fs'[f] = fs[f]
                /\ DOMAIN fs' = DOMAIN fs]_vars

\* the operator answered "maybe" and then "YES"; a key was deleted, another
\* set, and the file with all its tensors was rewritten
C17_Witness ==
    /\ ret.op = "meta"
    /\ ret.err = "none"
    /\ ~ret.args.yes
    /\ ret.args.answers = <<"maybe", "YES">>
    /\ ret.args.overrides = <<<<"config", "">>, <<"x2", "c9">>>>
    /\ ret.calls = <<"load_meta", "query_bool", "load_data", "save_weights">>
    /\ ret.printed = PyDict(PyStr("x2") :> PyStr("c9"))
    /\ DOMAIN fs["/m/a.st"].tensors = {KeyName(i) : i \in 1..MaxKeys}
    /\ fs["/m/a.st"].metadata = <<("x2" :> "c9")>>

\* C21: for every stored metadata map (an absent block counting as the empty
\* map) and every list of overrides, the meta command does not fail on an
\* override and prints the map with the overrides applied in order: a key given
\* a non-empty value is set to it, a key given an empty value is absent from
\* the result whether or not it was there before.
C21_OverrideSemantics ==
    [][(ret'.op = "meta" /\ load_meta(fs, ret'.args.path, TRUE).err = "none")
        => /\ ret'.err # "KeyError"
           /\ ret'.printed
                = Overridden(load_meta(fs, ret'.args.path, TRUE).val,
                             ret'.args.overrides)]_vars

=============================================================================
